---- MODULE Spec2Model ----
(***************************************************************************)
(* The crafting calculator (src/src/calculator.rs): a recipe catalog, a    *)
(* target stack and a pool of resources, from which every mutating         *)
(* operation recomputes the ordered list of steps (calculate_steps).       *)
(*                                                                         *)
(* A HashMap<String, V> is a function whose DOMAIN is its key set; a Vec   *)
(* is a sequence; a step (Rc<Recipe>, Count) is a pair <<recipe, repeats>>.*)
(* Iterating a HashMap visits its keys in an order the program does not    *)
(* control (std's RandomState): every order is a possible outcome.         *)
(***************************************************************************)
EXTENDS Integers, Sequences, FiniteSets, TLC

VARIABLES
    recipes,            \* Calculator.recipes: item name -> Recipe
    target,             \* Calculator.target: Stack
    initial_materials,  \* Calculator.initial_materials: item name -> Count
    materials,          \* Calculator.materials: working copy of the pool
    crafted_materials,  \* Calculator.crafted_materials: banked surplus
    steps,              \* Calculator.steps: the plan
    pc,                 \* where the running operation stands
    call,               \* the operation entered last, and its argument until
                        \* the first loop iteration of calculate_steps
    to_craft,           \* calculate_steps local: outstanding demand
    craft_order,        \* calculate_steps local: item name -> priority
    pops,               \* the locals of every phase A loop iteration so far
    discovered,         \* the steps phase A left, as phase B took them
    checked_steps,      \* calculate_steps local: the plan being built
    available_materials,\* calculate_steps local: HashSet of item names
    from_storage,       \* calculate_steps local: item name -> step
    steps_to_check,     \* calculate_steps local: steps not yet placed
    hist                \* the previous call and the plan it left

vars == <<recipes, target, initial_materials, materials, crafted_materials,
          steps, pc, call, to_craft, craft_order, pops, discovered,
          checked_steps, available_materials, from_storage, steps_to_check, hist>>

-----------------------------------------------------------------------------
(* Bounds of the model.                                                    *)

\* largest count of a target stack handed to set_target
MaxTarget == 2
\* largest count the pool holds of one item (add_resource is not offered beyond)
MaxPool == 2
\* largest count of one add_resource call
MaxAdd == 1
\* most iterations of the phase A loop followed where a catalog with a cycle
\* lets the loop run without end
MaxPops == 8
\* usize::MAX, the priority at which the queue is compacted; the value is the
\* largest the checker's integers hold
UsizeMax == 2147483647

-----------------------------------------------------------------------------
(* Stack and Recipe (src/src/stack.rs, src/src/recipe.rs).                 *)

Stack(name, count) == [name |-> name, count |-> count]

Recipe(result, method, ingredients) ==
    [result |-> result, method |-> method, ingredients |-> ingredients]

\* an In Storage pseudo-recipe built without its ingredient
InStorageBare(item) == Recipe(Stack(item, 1), "In Storage", <<>>)

\* the pseudo-recipe calculate_steps builds for an item drawn from the pool
InStorage(item) == Recipe(Stack(item, 1), "In Storage", <<Stack(item, 1)>>)

\* a Raw Material pseudo-recipe built without its ingredient
RawMaterialBare(item) == Recipe(Stack(item, 1), "Raw Material", <<>>)

\* the pseudo-recipe calculate_steps builds for an item without a recipe
RawMaterial(item) == Recipe(Stack(item, 1), "Raw Material", <<Stack(item, 1)>>)

-----------------------------------------------------------------------------
(* The inputs the operations are offered.                                  *)

Items == {"Shovel", "Stick", "Planks", "Charcoal", "Log"}

\* items add_resource is offered
PoolItems == {"Stick", "Planks"}

RecipeBook ==
    { Recipe(Stack("Planks", 4), "Crafting Table", <<Stack("Log", 1)>>),
      Recipe(Stack("Stick", 4), "Crafting Table", <<Stack("Planks", 2)>>),
      Recipe(Stack("Shovel", 1), "Crafting Table",
             <<Stack("Planks", 1), Stack("Stick", 2)>>),
      Recipe(Stack("Charcoal", 1), "Furnace", <<Stack("Log", 1)>>),
      Recipe(Stack("Planks", 1), "Crafting Table", <<Stack("Charcoal", 1)>>),
      Recipe(Stack("Shovel", 1), "Crafting Table",
             <<Stack("Stick", 1), Stack("Planks", 2)>>),
      Recipe(Stack("Stick", 1), "Raw Material", <<Stack("Planks", 1)>>),
      Recipe(Stack("Planks", 4), "In Storage", <<Stack("Log", 1)>>) }

\* the lists add_recipes is offered: one recipe, or two different recipes
\* for the same item
RecipeLists ==
    { <<r>> : r \in RecipeBook }
    \cup { l \in [1..2 -> RecipeBook] :
             l[1].result.name = l[2].result.name /\ l[1] # l[2] }

\* items set_target is offered
TargetItems == {"Shovel", "Stick", "Planks", "Log"}

Targets == { Stack(i, n) : i \in TargetItems, n \in 0..MaxTarget }

Resources == { Stack(i, n) : i \in PoolItems, n \in 0..MaxAdd }

-----------------------------------------------------------------------------
(* HashMap, HashSet and DoublePriorityQueue operations.                    *)

EmptyMap == [k \in {} |-> 0]

insert(m, k, v) == [x \in DOMAIN m \cup {k} |-> IF x = k THEN v ELSE m[x]]

remove(m, k) == [x \in DOMAIN m \ {k} |-> m[x]]

\* the count a map holds for k, 0 when k is no key
CountOf(m, k) == IF k \in DOMAIN m THEN m[k] ELSE 0

Min(a, b) == IF a <= b THEN a ELSE b

\* Count is usize: a sum beyond usize::MAX does not fit
Overflows(a, b) == a > UsizeMax - b

\* the sum a build without overflow checks stores: a + b modulo usize::MAX + 1
WrappingAdd(a, b) == IF Overflows(a, b) THEN a - (UsizeMax - b) - 1 ELSE a + b

\* every order in which iterating a map with key set S can visit the keys
Orders(S) ==
    { o \in [1..Cardinality(S) -> S] :
        \A i, j \in 1..Cardinality(S) : i # j => o[i] # o[j] }

\* the items pop_min may return: those of least priority
MinItems(q) == { k \in DOMAIN q : \A j \in DOMAIN q : q[k] <= q[j] }

\* the priority one below the highest the queue holds
BelowMaxPriority(q) ==
    LET k == CHOOSE x \in DOMAIN q : \A j \in DOMAIN q : q[j] <= q[x] IN q[k] - 1

\* the priority peek_max returns
MaxPriority(q) ==
    LET k == CHOOSE x \in DOMAIN q : \A j \in DOMAIN q : q[j] <= q[x] IN q[k]

\* a push that raises an item already queued and queues no new one
push_queued(q, k, p) ==
    IF k \in DOMAIN q /\ q[k] < p THEN [q EXCEPT ![k] = p] ELSE q

\* a push that leaves the priority of an item already queued
push_absent(q, k, p) == IF k \in DOMAIN q THEN q ELSE insert(q, k, p)

\* DoublePriorityQueue::push_increase
push_increase(q, k, p) ==
    IF k \in DOMAIN q
    THEN IF q[k] < p THEN [q EXCEPT ![k] = p] ELSE q
    ELSE insert(q, k, p)

\* into_ascending_sorted_vec, then re-inserted with the index as priority
Compact(q) ==
    [k \in DOMAIN q |-> Cardinality({ j \in DOMAIN q : q[j] < q[k] })]

-----------------------------------------------------------------------------
(* Phase A: one iteration of the loop at calculator.rs:74.                 *)

\* a repeat-count that is one too many when the yield divides the demand
RepeatsQuotient(per_execution, count) == (count \div per_execution) + 1

\* (1..).find(|i| i * per_execution >= count), for per_execution >= 1
Repeats(per_execution, count) ==
    CHOOSE i \in 1..count :
        /\ i * per_execution >= count
        /\ \A j \in 1..(i - 1) : j * per_execution < count

\* a loop over the ingredients that demands each for one execution only
RECURSIVE EnqueueIngredientsOnce(_, _, _, _, _)
EnqueueIngredientsOnce(q, tc, ingredients, i, repeats) ==
    IF i > Len(ingredients)
    THEN [craft_order |-> q, to_craft |-> tc]
    ELSE LET ingredient == ingredients[i]
             next_priority == IF DOMAIN q = {} THEN 0
                              ELSE WrappingAdd(MaxPriority(q), 1)
             q1 == IF next_priority = UsizeMax THEN Compact(q) ELSE q
             q2 == push_increase(q1, ingredient.name, next_priority)
             tc1 == insert(tc, ingredient.name,
                           CountOf(tc, ingredient.name) + ingredient.count)
         IN  EnqueueIngredientsOnce(q2, tc1, ingredients, i + 1, repeats)

\* the loop over recipe.ingredients() at calculator.rs:110. `priority + 1`
\* is the sum a build without overflow checks computes (a build with them
\* panics when peek_max returns usize::MAX)
RECURSIVE EnqueueIngredients(_, _, _, _, _)
EnqueueIngredients(q, tc, ingredients, i, repeats) ==
    IF i > Len(ingredients)
    THEN [craft_order |-> q, to_craft |-> tc]
    ELSE LET ingredient == ingredients[i]
             next_priority == IF DOMAIN q = {} THEN 0
                              ELSE WrappingAdd(MaxPriority(q), 1)
             q1 == IF next_priority = UsizeMax THEN Compact(q) ELSE q
             q2 == push_increase(q1, ingredient.name, next_priority)
             tc1 == insert(tc, ingredient.name,
                           CountOf(tc, ingredient.name) + ingredient.count * repeats)
         IN  EnqueueIngredients(q2, tc1, ingredients, i + 1, repeats)

\* a draw from the crafted surplus that leaves one item of it behind
FromCraftedShort(crafted, next_craft, count) ==
    IF next_craft \in DOMAIN crafted /\ crafted[next_craft] > 0
    THEN Min(crafted[next_craft] - 1, count)
    ELSE 0

\* a draw that leaves the crafted surplus alone
FromCraftedNone(crafted, next_craft, count) == 0

\* what is taken from the crafted surplus for a demand of count
FromCrafted(crafted, next_craft, count) ==
    IF next_craft \in DOMAIN crafted THEN Min(crafted[next_craft], count) ELSE 0

\* what is taken from the working copy of the pool for a demand of count
FromMaterials(mats, next_craft, count) ==
    IF next_craft \in DOMAIN mats THEN Min(mats[next_craft], count) ELSE 0

\* the body of `if let Some(mut count) = to_craft.remove(next_craft)`:
\* the new values of the state it touches, and the locals it computed
Resolve(next_craft, demand, q, tc) ==
    LET surplus == FromCrafted(crafted_materials, next_craft, demand)
        crafted1 == IF next_craft \in DOMAIN crafted_materials
                    THEN [crafted_materials EXCEPT ![next_craft] = @ - surplus]
                    ELSE crafted_materials
        count1 == demand - surplus
        stored == FromMaterials(materials, next_craft, count1)
        mats1 == IF stored > 0
                 THEN [materials EXCEPT ![next_craft] = @ - stored]
                 ELSE materials
        steps1 == IF stored > 0
                  THEN Append(steps, <<InStorage(next_craft), stored>>)
                  ELSE steps
        count == count1 - stored
        locals == [item |-> next_craft, demand |-> demand, surplus |-> surplus,
                   stored |-> stored, count |-> count]
    IN  IF count > 0 /\ next_craft \in DOMAIN recipes
        THEN LET recipe == recipes[next_craft]
                 per_execution == recipe.result.count
                 repeats == Repeats(per_execution, count)
                 produced == per_execution * repeats
                 crafted2 == IF produced > count
                             THEN insert(crafted1, next_craft, produced - count)
                             ELSE crafted1
                 queued == EnqueueIngredients(q, tc, recipe.ingredients, 1, repeats)
             IN  [steps |-> Append(steps1, <<recipe, repeats>>),
                  materials |-> mats1,
                  crafted_materials |-> crafted2,
                  craft_order |-> queued.craft_order,
                  to_craft |-> queued.to_craft,
                  locals |-> locals @@ [kind |-> "recipe", repeats |-> repeats]]
        ELSE IF count > 0
        THEN [steps |-> Append(steps1, <<RawMaterial(next_craft), count>>),
              materials |-> mats1,
              crafted_materials |-> crafted1,
              craft_order |-> q,
              to_craft |-> tc,
              locals |-> locals @@ [kind |-> "raw", repeats |-> count]]
        ELSE [steps |-> steps1,
              materials |-> mats1,
              crafted_materials |-> crafted1,
              craft_order |-> q,
              to_craft |-> tc,
              locals |-> locals @@ [kind |-> "covered", repeats |-> 0]]

\* the locals recorded when the popped item had no demand entry
Skipped(next_craft) ==
    [item |-> next_craft, demand |-> 0, surplus |-> 0, stored |-> 0,
     count |-> 0, kind |-> "skip", repeats |-> 0]

NoPop == [item |-> "", demand |-> 0, surplus |-> 0, stored |-> 0,
          count |-> 0, kind |-> "none", repeats |-> 0]

\* the locals of the last iteration
LastPop == IF pops = <<>> THEN NoPop ELSE pops[Len(pops)]

-----------------------------------------------------------------------------
(* Phase B: the buckets and the staged passes.                             *)

\* one of the two drain loops (calculator.rs:150 and :171): the steps of
\* the given method merged by result item, the others kept in order
RECURSIVE Separate(_, _, _, _, _)
Separate(todo, i, method, bucket, tmp) ==
    IF i > Len(todo)
    THEN [bucket |-> bucket, tmp |-> tmp]
    ELSE LET step == todo[i][1]
             repeats == todo[i][2]
             key == step.result.name
         IN  IF step.method # method
             THEN Separate(todo, i + 1, method, bucket, Append(tmp, todo[i]))
             ELSE IF key \in DOMAIN bucket
             THEN Separate(todo, i + 1, method,
                           [bucket EXCEPT ![key] = <<@[1], @[2] + repeats>>], tmp)
             ELSE Separate(todo, i + 1, method,
                           insert(bucket, key, <<step, repeats>>), tmp)

\* the steps of a map pushed in the order the iteration visits its keys
Emit(bucket, order) == [i \in 1..Len(order) |-> bucket[order[i]]]

\* a test that finds every step eligible
EligibleAlways(step, repeats, available, storage) == TRUE

\* the closure of `all` at calculator.rs:190
Eligible(step, repeats, available, storage) ==
    \A i \in 1..Len(step.ingredients) :
        LET stack == step.ingredients[i] IN
        \/ stack.name \in available
        \/ /\ stack.name \in DOMAIN storage
           /\ storage[stack.name][1].result.count * storage[stack.name][2]
                >= stack.count * repeats

\* the loop at calculator.rs:202: the storage entries of the step's
\* ingredients are moved into the plan
RECURSIVE TakeFromStorage(_, _, _, _, _, _)
TakeFromStorage(ingredients, i, repeats, checked, available, storage) ==
    IF i > Len(ingredients)
    THEN [checked |-> checked, available |-> available, storage |-> storage]
    ELSE LET item == ingredients[i].name IN
         IF item \in DOMAIN storage
         THEN TakeFromStorage(ingredients, i + 1, repeats,
                  Append(checked, <<storage[item][1], storage[item][2] * repeats>>),
                  available \cup {item},
                  remove(storage, item))
         ELSE TakeFromStorage(ingredients, i + 1, repeats, checked, available, storage)

\* the drain loop of one stage (calculator.rs:189)
RECURSIVE Stage(_, _, _, _, _, _, _)
Stage(todo, i, checked, available, storage, current_stage, tmp) ==
    IF i > Len(todo)
    THEN [checked |-> checked, available |-> available, storage |-> storage,
          current_stage |-> current_stage, tmp |-> tmp]
    ELSE LET step == todo[i][1]
             repeats == todo[i][2]
             key == step.result.name
         IN  IF ~Eligible(step, repeats, available, storage)
             THEN Stage(todo, i + 1, checked, available, storage, current_stage,
                        Append(tmp, todo[i]))
             ELSE LET taken == TakeFromStorage(step.ingredients, 1, repeats,
                                               checked, available, storage)
                      stage1 == IF key \in DOMAIN current_stage
                                THEN [current_stage EXCEPT
                                         ![key] = <<@[1], @[2] + repeats>>]
                                ELSE insert(current_stage, key, <<step, repeats>>)
                  IN  Stage(todo, i + 1, taken.checked, taken.available,
                            taken.storage, stage1, tmp)

-----------------------------------------------------------------------------
(* The operations.                                                         *)

NoCall == [op |-> "none", arg |-> <<>>]

NoHist == [call |-> NoCall, before |-> <<>>, repeat |-> FALSE, same |-> FALSE]

\* Calculator::new()
Init ==
    /\ recipes = EmptyMap
    /\ target = Stack("Air", 1)
    /\ initial_materials = EmptyMap
    /\ materials = EmptyMap
    /\ crafted_materials = EmptyMap
    /\ steps = <<>>
    /\ pc = "idle"
    /\ call = NoCall
    /\ to_craft = EmptyMap
    /\ craft_order = EmptyMap
    /\ pops = <<>>
    /\ discovered = <<>>
    /\ checked_steps = <<>>
    /\ available_materials = {}
    /\ from_storage = EmptyMap
    /\ steps_to_check = <<>>
    /\ hist = NoHist

\* a recomputation that goes on with the working copy the last one left
BeginOnLeftovers(new_target, pool) ==
    /\ steps' = <<>>
    /\ materials' = materials
    /\ crafted_materials' = EmptyMap
    /\ to_craft' = insert(EmptyMap, new_target.name, new_target.count)
    /\ craft_order' = insert(EmptyMap, new_target.name, 0)
    /\ pops' = <<>>
    /\ discovered' = <<>>
    /\ pc' = "phaseA"
    /\ UNCHANGED <<checked_steps, available_materials, from_storage, steps_to_check>>

\* calculate_steps up to the loop (calculator.rs:67-73), for the target and
\* the pool the operation leaves
Begin(new_target, pool) ==
    /\ steps' = <<>>
    /\ materials' = pool
    /\ crafted_materials' = EmptyMap
    /\ to_craft' = insert(EmptyMap, new_target.name, new_target.count)
    /\ craft_order' = insert(EmptyMap, new_target.name, 0)
    /\ pops' = <<>>
    /\ discovered' = <<>>
    /\ pc' = "phaseA"
    /\ UNCHANGED <<checked_steps, available_materials, from_storage, steps_to_check>>

\* a pool whose entry is replaced by the stack added
AddToPoolReplacing(pool, resource) == insert(pool, resource.name, resource.count)

\* the pool after add_resource(resource)
AddToPool(pool, resource) ==
    IF resource.name \in DOMAIN pool
    THEN [pool EXCEPT ![resource.name] = @ + resource.count]
    ELSE insert(pool, resource.name, resource.count)

\* Calculator::add_resource
add_resource(resource, h) ==
    /\ pc = "idle"
    /\ CountOf(initial_materials, resource.name) + resource.count <= MaxPool
    /\ call' = [op |-> "add_resource", arg |-> resource]
    /\ hist' = h
    /\ initial_materials' = AddToPool(initial_materials, resource)
    /\ Begin(target, initial_materials')
    /\ UNCHANGED <<recipes, target>>

\* a catalog in which the first recipe of the list for an item stays
InsertRecipesFirst(catalog, list, i) ==
    LET named == { list[j].result.name : j \in i..Len(list) }
        first(x) == CHOOSE j \in i..Len(list) :
                        /\ list[j].result.name = x
                        /\ \A k \in i..(j - 1) : list[k].result.name # x
    IN  [x \in DOMAIN catalog \cup named |->
            IF x \in named THEN list[first(x)] ELSE catalog[x]]

\* the catalog after the loop of add_recipes
RECURSIVE InsertRecipes(_, _, _)
InsertRecipes(catalog, list, i) ==
    IF i > Len(list)
    THEN catalog
    ELSE InsertRecipes(insert(catalog, list[i].result.name, list[i]), list, i + 1)

\* Calculator::add_recipes (set_recipe is add_recipes of a one-element list)
add_recipes(list, h) ==
    /\ pc = "idle"
    /\ call' = [op |-> "add_recipes", arg |-> list]
    /\ hist' = h
    /\ recipes' = InsertRecipes(recipes, list, 1)
    /\ Begin(target, initial_materials)
    /\ UNCHANGED <<target, initial_materials>>

\* Calculator::set_target
set_target(new_target, h) ==
    /\ pc = "idle"
    /\ call' = [op |-> "set_target", arg |-> new_target]
    /\ hist' = h
    /\ target' = new_target
    /\ Begin(new_target, initial_materials)
    /\ UNCHANGED <<recipes, initial_materials>>

\* the call leaves the catalog, the target and the pool as they are
SameInputs(c) ==
    IF c.op = "set_target" THEN c.arg = target
    ELSE IF c.op = "add_recipes" THEN InsertRecipes(recipes, c.arg, 1) = recipes
    ELSE AddToPool(initial_materials, c.arg) = initial_materials

\* the history a call leaves: itself, whether it repeats the call before
\* it, whether it leaves the inputs of the plan as they are, and in these
\* two cases the plan it found
Record(c) ==
    [call |-> c,
     before |-> IF c = hist.call \/ SameInputs(c) THEN steps ELSE <<>>,
     repeat |-> c = hist.call,
     same |-> SameInputs(c)]

\* one iteration of `while let Some((next_craft, _)) = craft_order.pop_min()`
PhaseAPop ==
    /\ pc = "phaseA"
    /\ DOMAIN craft_order # {}
    /\ \E next_craft \in MinItems(craft_order) :
         LET q == remove(craft_order, next_craft) IN
         IF next_craft \in DOMAIN to_craft
         THEN LET r == Resolve(next_craft, to_craft[next_craft], q,
                               remove(to_craft, next_craft))
              IN  /\ steps' = r.steps
                  /\ materials' = r.materials
                  /\ crafted_materials' = r.crafted_materials
                  /\ craft_order' = r.craft_order
                  /\ to_craft' = r.to_craft
                  /\ pops' = Append(pops, r.locals)
         ELSE /\ craft_order' = q
              /\ pops' = Append(pops, Skipped(next_craft))
              /\ UNCHANGED <<steps, materials, crafted_materials, to_craft>>
    /\ call' = [call EXCEPT !.arg = <<>>]
    /\ UNCHANGED <<recipes, target, initial_materials, pc, discovered, checked_steps,
                   available_materials, from_storage, steps_to_check, hist>>

\* the queue is empty: the buckets of phase B (calculator.rs:141-184)
PhaseBSeparate ==
    /\ pc = "phaseA"
    /\ DOMAIN craft_order = {}
    /\ LET raw == Separate(steps, 1, "Raw Material", EmptyMap, <<>>)
           stored == Separate(raw.tmp, 1, "In Storage", EmptyMap, <<>>)
       IN  /\ \E order \in Orders(DOMAIN raw.bucket) :
                checked_steps' = Emit(raw.bucket, order)
           /\ available_materials' = DOMAIN raw.bucket
           /\ from_storage' = stored.bucket
           /\ steps_to_check' = stored.tmp
    /\ discovered' = steps
    /\ steps' = <<>>
    /\ pc' = "phaseB"
    /\ UNCHANGED <<recipes, target, initial_materials, materials, crafted_materials,
                   call, to_craft, craft_order, pops, hist>>

\* one pass of `while !steps_to_check.is_empty()`
PhaseBStage ==
    /\ pc = "phaseB"
    /\ steps_to_check # <<>>
    /\ LET s == Stage(steps_to_check, 1, checked_steps, available_materials,
                      from_storage, EmptyMap, <<>>)
       IN  /\ \E order \in Orders(DOMAIN s.current_stage) :
                checked_steps' = s.checked \o Emit(s.current_stage, order)
           /\ available_materials' = s.available \cup DOMAIN s.current_stage
           /\ from_storage' = s.storage
           /\ steps_to_check' = s.tmp
    /\ UNCHANGED <<recipes, target, initial_materials, materials, crafted_materials,
                   steps, pc, call, to_craft, craft_order, pops, discovered, hist>>

\* self.steps = checked_steps, and the operation returns
Return ==
    /\ pc = "phaseB"
    /\ steps_to_check = <<>>
    /\ steps' = checked_steps
    /\ pc' = "idle"
    /\ checked_steps' = <<>>
    /\ available_materials' = {}
    /\ from_storage' = EmptyMap
    /\ UNCHANGED <<recipes, target, initial_materials, materials, crafted_materials,
                   call, to_craft, craft_order, pops, discovered, steps_to_check,
                   hist>>

Next ==
    \/ \E resource \in Resources : add_resource(resource, hist)
    \/ \E list \in RecipeLists : add_recipes(list, hist)
    \/ \E new_target \in Targets : set_target(new_target, hist)
    \/ PhaseAPop
    \/ PhaseBSeparate
    \/ PhaseBStage
    \/ Return

Spec == Init /\ [][Next]_vars

\* the inputs offered where every call is recorded
HistResources == { Stack(i, n) : i \in PoolItems, n \in 1..MaxAdd }

HistLists == { <<r>> : r \in RecipeBook }

HistTargets == { Stack(i, n) : i \in {"Shovel", "Planks"}, n \in 1..MaxTarget }

\* the same operations, each leaving its record in hist
NextHist ==
    \/ \E resource \in HistResources :
         add_resource(resource, Record([op |-> "add_resource", arg |-> resource]))
    \/ \E list \in HistLists :
         add_recipes(list, Record([op |-> "add_recipes", arg |-> list]))
    \/ \E new_target \in HistTargets :
         set_target(new_target, Record([op |-> "set_target", arg |-> new_target]))
    \/ PhaseAPop
    \/ PhaseBSeparate
    \/ PhaseBStage
    \/ Return

SpecHist == Init /\ [][NextHist]_vars

\* a catalog of recipes whose graph has no cycle, one of them with an
\* ingredient of count 0, and the targets and resources offered with it
LiveBook ==
    { Recipe(Stack("Charcoal", 1), "Furnace", <<Stack("Log", 1), Stack("Planks", 0)>>),
      Recipe(Stack("Planks", 4), "Crafting Table", <<Stack("Log", 1)>>),
      Recipe(Stack("Stick", 4), "Crafting Table", <<Stack("Planks", 2)>>) }

LiveTargets == { Stack(i, n) : i \in {"Charcoal", "Stick", "Planks"}, n \in 1..MaxTarget }

LiveResources == { Stack("Planks", n) : n \in 1..MaxAdd }

NextLive ==
    \/ \E resource \in LiveResources : add_resource(resource, hist)
    \/ \E r \in LiveBook : add_recipes(<<r>>, hist)
    \/ \E new_target \in LiveTargets : set_target(new_target, hist)
    \/ PhaseAPop
    \/ PhaseBSeparate
    \/ PhaseBStage
    \/ Return

\* an operation runs to its end without suspension: no loop of
\* calculate_steps that can take a step waits forever
SpecLive ==
    /\ Init /\ [][NextLive]_vars
    /\ WF_vars(PhaseAPop) /\ WF_vars(PhaseBSeparate)
    /\ WF_vars(PhaseBStage) /\ WF_vars(Return)

\* stacks of one and of usize::MAX items
WideResources == { Stack(i, n) : i \in PoolItems, n \in {1, UsizeMax} }

\* Calculator::add_resource where the count may leave the range of usize.
\* `*count += resource.count()` panics in a build with overflow checks (the
\* default of the dev profile) and wraps in one without (the default of the
\* release profile). Offered while the pool holds less than MaxPool of the
\* item, and for one more item when it holds usize::MAX.
add_resource_wide(resource) ==
    LET held == CountOf(initial_materials, resource.name) IN
    /\ pc = "idle"
    /\ held < MaxPool \/ (held = UsizeMax /\ resource.count = 1)
    /\ call' = [op |-> "add_resource", arg |-> resource]
    /\ IF Overflows(held, resource.count)
       THEN \/ /\ pc' = "panicked"
               /\ UNCHANGED <<recipes, target, initial_materials, materials,
                              crafted_materials, steps, to_craft, craft_order,
                              pops, discovered, checked_steps, available_materials,
                              from_storage, steps_to_check, hist>>
            \/ /\ initial_materials' =
                      [initial_materials EXCEPT
                          ![resource.name] = WrappingAdd(@, resource.count)]
               /\ Begin(target, initial_materials')
               /\ UNCHANGED <<recipes, target, hist>>
       ELSE /\ initial_materials' = AddToPool(initial_materials, resource)
            /\ Begin(target, initial_materials')
            /\ UNCHANGED <<recipes, target, hist>>

NextWide ==
    \/ \E resource \in WideResources : add_resource_wide(resource)
    \/ \E r \in LiveBook : add_recipes(<<r>>, hist)
    \/ \E new_target \in LiveTargets : set_target(new_target, hist)
    \/ PhaseAPop
    \/ PhaseBSeparate
    \/ PhaseBStage
    \/ Return

SpecWide == Init /\ [][NextWide]_vars

\* a catalog in which Planks are demanded at two depths (by Shovel and by
\* Stick) and crafted from Charcoal, which can be held and crafted
DeepBook ==
    { Recipe(Stack("Shovel", 1), "Crafting Table",
             <<Stack("Planks", 1), Stack("Stick", 2)>>),
      Recipe(Stack("Stick", 4), "Crafting Table", <<Stack("Planks", 1)>>),
      Recipe(Stack("Planks", 1), "Crafting Table", <<Stack("Charcoal", 1)>>),
      Recipe(Stack("Charcoal", 1), "Furnace", <<Stack("Log", 1)>>) }

DeepTargets == { Stack(i, n) : i \in {"Shovel", "Stick"}, n \in 1..MaxTarget }

DeepResources == { Stack(i, n) : i \in {"Charcoal", "Planks"}, n \in 1..MaxAdd }

NextDeep ==
    \/ \E resource \in DeepResources : add_resource(resource, hist)
    \/ \E r \in DeepBook : add_recipes(<<r>>, hist)
    \/ \E new_target \in DeepTargets : set_target(new_target, hist)
    \/ PhaseAPop
    \/ PhaseBSeparate
    \/ PhaseBStage
    \/ Return

SpecDeep == Init /\ [][NextDeep]_vars

\* one iteration of the phase A loop, followed for MaxPops iterations
PhaseAPopBounded == Len(pops) < MaxPops /\ PhaseAPop

\* Calculator::with_recipes: the map is taken as the caller built it, each
\* recipe stored under the key the caller chose
with_recipes(map) ==
    /\ recipes = map
    /\ target = Stack("Air", 1)
    /\ initial_materials = EmptyMap
    /\ materials = EmptyMap
    /\ crafted_materials = EmptyMap
    /\ steps = <<>>
    /\ pc = "idle"
    /\ call = NoCall
    /\ to_craft = EmptyMap
    /\ craft_order = EmptyMap
    /\ pops = <<>>
    /\ discovered = <<>>
    /\ checked_steps = <<>>
    /\ available_materials = {}
    /\ from_storage = EmptyMap
    /\ steps_to_check = <<>>
    /\ hist = NoHist

\* two recipes of the test calculate_leftover_reuse
WithBook ==
    { Recipe(Stack("Planks", 4), "Crafting Table", <<Stack("Log", 1)>>),
      Recipe(Stack("Stick", 4), "Crafting Table", <<Stack("Planks", 2)>>) }

\* the maps a caller can hand to with_recipes: either recipe under either
\* of the keys Stick and Planks
WithMaps == UNION { [S -> WithBook] : S \in SUBSET {"Stick", "Planks"} }

WithTargets == { Stack(i, n) : i \in {"Stick", "Planks"}, n \in 1..MaxTarget }

InitWith == \E map \in WithMaps : with_recipes(map)

NextWith ==
    \/ \E resource \in HistResources : add_resource(resource, hist)
    \/ \E new_target \in WithTargets : set_target(new_target, hist)
    \/ PhaseAPopBounded
    \/ PhaseBSeparate
    \/ PhaseBStage
    \/ Return

SpecWith == InitWith /\ [][NextWith]_vars

\* a catalog with cycles: Planks and Stick require each other (under
\* ordinary and under reserved labels), Charcoal requires itself
CycleBook ==
    { Recipe(Stack("Planks", 1), "Crafting Table", <<Stack("Stick", 1)>>),
      Recipe(Stack("Stick", 4), "Crafting Table", <<Stack("Planks", 1)>>),
      Recipe(Stack("Shovel", 1), "Crafting Table",
             <<Stack("Planks", 1), Stack("Stick", 2)>>),
      Recipe(Stack("Charcoal", 1), "Furnace",
             <<Stack("Charcoal", 1), Stack("Log", 1)>>),
      Recipe(Stack("Stick", 1), "Raw Material", <<Stack("Planks", 1)>>),
      Recipe(Stack("Planks", 1), "In Storage", <<Stack("Stick", 1)>>) }

CycleTargets ==
    { Stack(i, n) : i \in {"Shovel", "Planks", "Stick", "Charcoal"}, n \in 1..MaxTarget }

NextCycle ==
    \/ \E resource \in HistResources : add_resource(resource, hist)
    \/ \E r \in CycleBook : add_recipes(<<r>>, hist)
    \/ \E new_target \in CycleTargets : set_target(new_target, hist)
    \/ PhaseAPopBounded
    \/ PhaseBSeparate
    \/ PhaseBStage
    \/ Return

SpecCycle == Init /\ [][NextCycle]_vars

-----------------------------------------------------------------------------
(* What the claims speak of.                                               *)

\* a recomputation has completed and the plan is the one it left
Planned == pc = "idle" /\ call.op # "none"

AllItems == Items \cup {"Air"}

\* the kinds of step a plan holds: the two pseudo-recipes phase A builds,
\* and the recipes of the catalog
IsRawStep(s) == s[1] = RawMaterial(s[1].result.name)

IsStorageStep(s) == s[1] = InStorage(s[1].result.name)

IsCatalogStep(s) == ~IsRawStep(s) /\ ~IsStorageStep(s)

\* the ingredient items of a recipe
IngredientItems(r) == { r.ingredients[i].name : i \in 1..Len(r.ingredients) }

\* how much of item x one execution of recipe r consumes
RECURSIVE NeedFrom(_, _, _)
NeedFrom(r, x, i) ==
    IF i > Len(r.ingredients) THEN 0
    ELSE (IF r.ingredients[i].name = x THEN r.ingredients[i].count ELSE 0)
         + NeedFrom(r, x, i + 1)

Need(r, x) == NeedFrom(r, x, 1)

\* the inventory after a step has taken its ingredients: a catalog step
\* (R, n) removes n * ingredient.count of every ingredient
AfterTaking(inv, s) ==
    IF IsCatalogStep(s)
    THEN [x \in DOMAIN inv |-> inv[x] - s[2] * Need(s[1], x)]
    ELSE inv

\* the inventory after the whole step: a Raw Material step adds its count,
\* a catalog step adds n * R.result.count, an In Storage step moves nothing
AfterStep(inv, s) ==
    LET taken == AfterTaking(inv, s)
        made == IF IsRawStep(s) THEN s[2]
                ELSE IF IsCatalogStep(s) THEN s[2] * s[1].result.count
                ELSE 0
    IN  [x \in DOMAIN inv |-> taken[x] + (IF x = s[1].result.name THEN made ELSE 0)]

\* the inventory after the first k steps of the plan, from the pool
RECURSIVE InventoryAfter(_, _, _)
InventoryAfter(plan, pool, k) ==
    IF k = 0
    THEN [x \in AllItems |-> CountOf(pool, x)]
    ELSE AfterStep(InventoryAfter(plan, pool, k - 1), plan[k])

\* C1: executing the final plan in order from the resource pool never
\* drives an item's inventory below zero and ends with at least
\* target.count of the target item.
C1_PlanExecutable ==
    Planned =>
        /\ \A k \in 1..Len(steps) : \A x \in AllItems :
               AfterTaking(InventoryAfter(steps, initial_materials, k - 1),
                           steps[k])[x] >= 0
        /\ InventoryAfter(steps, initial_materials, Len(steps))[target.name]
               >= target.count

\* the items a step at a position before j produces
ProducedBefore(plan, j) == { plan[i][1].result.name : i \in 1..(j - 1) }

\* C2: every ingredient of a catalog step is produced by an earlier step of
\* the plan or is present in the resource pool.
C2_IngredientsPrecede ==
    Planned =>
        \A j \in 1..Len(steps) :
            IsCatalogStep(steps[j]) =>
                \A x \in IngredientItems(steps[j][1]) :
                    \/ x \in ProducedBefore(steps, j)
                    \/ x \in DOMAIN initial_materials

\* C3: no step that produces an item appears after a step that consumes
\* that item.
C3_NoProducerAfterConsumer ==
    Planned =>
        \A i, j \in 1..Len(steps) :
            (i < j /\ IsCatalogStep(steps[i])) =>
                steps[j][1].result.name \notin IngredientItems(steps[i][1])

\* C4 as claimed: for a target whose item has no catalog recipe, set_target
\* leaves exactly one Raw Material step, for the full target count.
C4_RawTargetAnyPool ==
    (Planned /\ call.op = "set_target" /\ target.name \notin DOMAIN recipes) =>
        steps = << << [result |-> [name |-> target.name, count |-> 1],
                       method |-> "Raw Material",
                       ingredients |-> <<[name |-> target.name, count |-> 1]>>],
                      target.count >> >>

\* C4 as amended: for a target of count at least 1 whose item has no catalog
\* recipe and of which the pool holds nothing, set_target leaves exactly one
\* Raw Material step, for the full target count.
C4_RawTarget ==
    (/\ Planned /\ call.op = "set_target"
     /\ target.name \notin DOMAIN recipes
     /\ target.count >= 1
     /\ CountOf(initial_materials, target.name) = 0) =>
        steps = << << [result |-> [name |-> target.name, count |-> 1],
                       method |-> "Raw Material",
                       ingredients |-> <<[name |-> target.name, count |-> 1]>>],
                      target.count >> >>

\* a target without recipe, asked for twice over while the catalog and the
\* pool hold other items, and even a zero entry for the target's item
C4_Witness ==
    /\ Planned /\ call.op = "set_target"
    /\ target = Stack("Planks", 2)
    /\ DOMAIN recipes = {"Shovel", "Stick"}
    /\ DOMAIN initial_materials = {"Stick", "Planks"}
    /\ initial_materials["Planks"] = 0
    /\ initial_materials["Stick"] = 1
    /\ Len(steps) = 1 /\ steps[1][2] = 2

\* C5: a remaining demand C > 0 resolved by a catalog recipe of yield Y
\* emits the smallest repeat-count r with r * Y >= C, banks exactly
\* r * Y - C as surplus, and raises each ingredient's outstanding demand by
\* ingredient.count * r.
C5_RoundingUp ==
    [][ (pc = "phaseA" /\ pc' = "phaseA" /\ LastPop'.kind = "recipe") =>
          LET X == LastPop'.item
              C == LastPop'.count
              R == recipes[X]
              Y == R.result.count
              emitted == steps'[Len(steps')]
              r == emitted[2]
          IN  /\ C > 0
              /\ emitted[1] = R
              /\ r >= 1 /\ r * Y >= C /\ (r - 1) * Y < C
              /\ CountOf(crafted_materials', X) = r * Y - C
              /\ \A x \in AllItems :
                    CountOf(to_craft', x) =
                        (IF x = X THEN 0 ELSE CountOf(to_craft, x)) + r * Need(R, x)
      ]_vars

\* a demand of 6 met by two executions of a recipe of yield 4: 2 are banked
\* and the ingredient's demand stands at 2
C5_Witness ==
    /\ pc = "phaseA" /\ LastPop.kind = "recipe"
    /\ recipes[LastPop.item].result.count = 4
    /\ LastPop.count = 6 /\ LastPop.repeats = 2
    /\ crafted_materials[LastPop.item] = 2
    /\ CountOf(to_craft, "Log") = 2

\* the positions of the plan that hold a catalog step producing item x
CraftSteps(plan, x) ==
    { k \in 1..Len(plan) : IsCatalogStep(plan[k]) /\ plan[k][1].result.name = x }

\* item x was resolved by its recipe at iteration i and by nothing but the
\* surplus afterwards, at least once
ReusedAfter(x, i) ==
    /\ pops[i].item = x /\ pops[i].kind = "recipe"
    /\ \A j \in 1..Len(pops) : (j # i /\ pops[j].item = x) => pops[j].kind # "recipe"
    /\ \E j \in (i + 1)..Len(pops) :
          pops[j].item = x /\ pops[j].demand > 0 /\ pops[j].surplus = pops[j].demand

\* a demand on an item that has banked surplus is drawn from the surplus
\* first, and one the surplus covers adds no step and no demand
SurplusFirst ==
    (pc = "phaseA" /\ pc' = "phaseA" /\ LastPop'.kind # "skip") =>
        LET X == LastPop'.item
            d == to_craft[X]
            s == CountOf(crafted_materials, X)
        IN  s > 0 =>
              /\ LastPop'.surplus = Min(d, s)
              /\ s >= d =>
                    /\ steps' = steps
                    /\ materials' = materials
                    /\ to_craft' = remove(to_craft, X)
                    /\ craft_order' = remove(craft_order, X)
                    /\ crafted_materials' = [crafted_materials EXCEPT ![X] = s - d]

\* the plan holds a single crafting step for an item whose later demand the
\* surplus covered, with the first resolution's repeat-count
SingleCraftStep ==
    Planned =>
        \A i \in 1..Len(pops) : \A x \in AllItems :
            ReusedAfter(x, i) =>
                /\ Cardinality(CraftSteps(steps, x)) = 1
                /\ \A k \in CraftSteps(steps, x) : steps[k][2] = pops[i].repeats

\* C6: a second demand on an item that was over-produced is drawn from the
\* banked surplus first; if the surplus covers it no step and no ingredient
\* demand is added, and the plan holds a single crafting step for the item
\* with the first resolution's repeat-count.
C6_SurplusReuse == [][SurplusFirst]_vars /\ []SingleCraftStep

\* the demand phase A met for item x, summed over the iterations that
\* popped x
RECURSIVE DemandUpTo(_, _)
DemandUpTo(x, i) ==
    IF i = 0 THEN 0
    ELSE (IF pops[i].item = x THEN pops[i].demand ELSE 0) + DemandUpTo(x, i - 1)

TotalDemand(x) == DemandUpTo(x, Len(pops))

\* what phase A drew from the pool for item x
RECURSIVE StoredUpTo(_, _)
StoredUpTo(x, i) ==
    IF i = 0 THEN 0
    ELSE (IF pops[i].item = x THEN pops[i].stored ELSE 0) + StoredUpTo(x, i - 1)

TotalStored(x) == StoredUpTo(x, Len(pops))

\* the positions of the plan that hold the pseudo-steps for item x
StorageSteps(plan, x) ==
    { k \in 1..Len(plan) : IsStorageStep(plan[k]) /\ plan[k][1].result.name = x }

RawSteps(plan, x) ==
    { k \in 1..Len(plan) : IsRawStep(plan[k]) /\ plan[k][1].result.name = x }

\* C7: an item demanded during the recomputation of which the pool holds at
\* least the total demand has an In Storage step in the plan, and neither a
\* Raw Material step nor a catalog step.
C7_ResourcePrecedence ==
    Planned =>
        \A x \in AllItems :
            (/\ TotalDemand(x) >= 1
             /\ CountOf(initial_materials, x) >= TotalDemand(x)) =>
                /\ StorageSteps(steps, x) # {}
                /\ RawSteps(steps, x) = {}
                /\ CraftSteps(steps, x) = {}

\* the repeat-counts of the catalog steps for item x, summed
RECURSIVE CraftedUpTo(_, _, _)
CraftedUpTo(plan, x, k) ==
    IF k = 0 THEN 0
    ELSE (IF k \in CraftSteps(plan, x) THEN plan[k][2] ELSE 0)
         + CraftedUpTo(plan, x, k - 1)

\* C8: an In Storage step for an item stands before every catalog step that
\* lists the item as an ingredient and after the step that crafts the item,
\* and the batches crafted of the item cover only the demand left after the
\* storage draw.
C8_StoragePlacement ==
    Planned =>
        \A x \in AllItems : \A p \in StorageSteps(steps, x) :
            /\ \A q \in 1..Len(steps) :
                  (IsCatalogStep(steps[q]) /\ x \in IngredientItems(steps[q][1]))
                      => p < q
            /\ \A c \in CraftSteps(steps, x) : c < p
            /\ x \in DOMAIN recipes =>
                  LET Y == recipes[x].result.count
                      r == CraftedUpTo(steps, x, Len(steps))
                      left == TotalDemand(x) - TotalStored(x)
                  IN  r * Y >= left /\ (r > 0 => (r - 1) * Y < left)

\* C9, for the operations whose repetition leaves the catalog, the target
\* and the pool as the first call left them (set_target, add_recipes): the
\* second of two calls in a row with equal arguments leaves the plan the
\* first one left.
C9_Idempotent ==
    (Planned /\ hist.repeat /\ hist.call.op # "add_resource") =>
        steps = hist.before

\* C10: add_resource(Stack(X, n)) raises the pool's count of X by n (from 0
\* when X was unknown) and leaves every other count; no step of the program
\* lowers a pool count.
C10_AddResourceAdditive ==
    [][ /\ \A x \in AllItems :
              CountOf(initial_materials', x) >= CountOf(initial_materials, x)
        /\ (pc = "idle" /\ pc' = "phaseA" /\ call'.op = "add_resource") =>
              /\ \A x \in AllItems :
                    CountOf(initial_materials', x) =
                        CountOf(initial_materials, x)
                        + (IF x = call'.arg.name THEN call'.arg.count ELSE 0)
              /\ DOMAIN initial_materials' = DOMAIN initial_materials \cup {call'.arg.name}
      ]_vars

\* add_resource of one more of an item the pool already holds, beside an
\* entry for another item
C10_Witness ==
    /\ pc = "phaseA" /\ pops = <<>> /\ call.op = "add_resource"
    /\ call.arg = Stack("Planks", 1)
    /\ DOMAIN initial_materials = {"Planks", "Stick"}
    /\ initial_materials["Planks"] = 2
    /\ initial_materials["Stick"] = 1

\* an operation is entered by this step
Entered(op) == pc = "idle" /\ pc' = "phaseA" /\ call'.op = op

\* the positions of a list that hold a recipe producing item x
Producing(list, x) == { i \in 1..Len(list) : list[i].result.name = x }

\* C11: after add_recipes(list) the catalog entry of every item the list
\* produces is the last recipe of the list producing it, every other entry
\* is as it was, and the plan is recomputed with the new catalog.
C11_LastWriteWins ==
    [][ Entered("add_recipes") =>
          LET list == call'.arg IN
          /\ \A x \in AllItems :
                IF Producing(list, x) # {}
                THEN /\ x \in DOMAIN recipes'
                     /\ \E i \in Producing(list, x) :
                           /\ \A j \in Producing(list, x) : j <= i
                           /\ recipes'[x] = list[i]
                ELSE /\ x \in DOMAIN recipes' <=> x \in DOMAIN recipes
                     /\ x \in DOMAIN recipes => recipes'[x] = recipes[x]
          /\ DOMAIN recipes' \subseteq AllItems
          /\ steps' = <<>> /\ materials' = initial_materials
          /\ to_craft' = insert(EmptyMap, target.name, target.count)
      ]_vars

\* add_recipes of two different recipes for Planks into a catalog that holds
\* a recipe for Stick: the second of the two is the entry
C11_Witness ==
    /\ pc = "phaseA" /\ pops = <<>> /\ call.op = "add_recipes"
    /\ Len(call.arg) = 2
    /\ call.arg[1] = Recipe(Stack("Planks", 4), "Crafting Table", <<Stack("Log", 1)>>)
    /\ call.arg[2] = Recipe(Stack("Planks", 1), "Crafting Table", <<Stack("Charcoal", 1)>>)
    /\ recipes["Planks"] = call.arg[2]
    /\ "Stick" \in DOMAIN recipes

\* C12: no step of a recomputation changes the pool, the catalog or the
\* target; set_target changes only the target, add_recipes only the catalog,
\* add_resource only the pool; the pool, empty at first, changes by nothing
\* but the stacks added; and every recomputation starts from the whole pool.
C12_WorkingCopies ==
    /\ initial_materials = EmptyMap
    /\ [][ IF pc # "idle"
           THEN /\ recipes' = recipes
                /\ target' = target
                /\ initial_materials' = initial_materials
                /\ pc' = "phaseA" /\ pops' = <<>> => materials' = initial_materials
           ELSE /\ materials' = initial_materials'
                /\ \/ /\ Entered("set_target")
                      /\ recipes' = recipes /\ initial_materials' = initial_materials
                   \/ /\ Entered("add_recipes")
                      /\ target' = target /\ initial_materials' = initial_materials
                   \/ /\ Entered("add_resource")
                      /\ recipes' = recipes /\ target' = target
                      /\ \A x \in AllItems :
                            CountOf(initial_materials', x) =
                                CountOf(initial_materials, x)
                                + (IF call'.arg.name = x THEN call'.arg.count ELSE 0)
         ]_vars

\* a recomputation has drawn the 2 Planks of the pool from its working copy
\* and the pool still holds them
C12_Witness ==
    /\ Planned
    /\ "Planks" \in DOMAIN initial_materials /\ initial_materials["Planks"] = 2
    /\ materials["Planks"] = 0
    /\ target.name = "Shovel"

\* the items reachable from item x along at most n recipe edges (x to each
\* ingredient of the catalog's recipe for x), n >= 1
RECURSIVE Requires(_, _, _)
Requires(catalog, x, n) ==
    LET direct == IF x \in DOMAIN catalog THEN IngredientItems(catalog[x]) ELSE {}
    IN  IF n = 1 THEN direct
        ELSE direct \cup UNION { Requires(catalog, y, n - 1) : y \in direct }

\* no item of the catalog requires itself, directly or transitively
Acyclic(catalog) ==
    \A x \in DOMAIN catalog : x \notin Requires(catalog, x, Cardinality(AllItems))

\* C13: with a catalog whose recipe graph is acyclic, the recomputation an
\* operation starts comes to its end and leaves a plan.
C13_Terminates == (pc # "idle" /\ Acyclic(recipes)) ~> (pc = "idle")

\* C14: an add_resource whose sum exceeds the range of the count type aborts
\* with an error and stores nothing; the pool never takes a wrapped sum.
C14_OverflowFailsLoudly ==
    [][ (/\ pc = "idle" /\ pc' # "idle" /\ call'.op = "add_resource"
         /\ Overflows(CountOf(initial_materials, call'.arg.name), call'.arg.count)) =>
            /\ pc' = "panicked"
            /\ initial_materials' = initial_materials
      ]_vars

\* C15, for two sequences of operations of which the second is the first
\* and one more operation that leaves catalog, target and pool as they
\* were (a set_target to the target set, an add_recipes of entries the
\* catalog holds): the two sequences end with the same plan.
C15_HistoryIndependent ==
    (Planned /\ hist.same) => steps = hist.before

\* the kind of a step
KindOf(s) ==
    IF IsRawStep(s) THEN "raw" ELSE IF IsStorageStep(s) THEN "storage" ELSE "catalog"

\* C16: the final plan holds at most one step per produced item and kind:
\* no two catalog steps, no two Raw Material steps and no two In Storage
\* steps for the same item.
C16_MergedPlan ==
    Planned =>
        \A i, j \in 1..Len(steps) :
            (/\ i < j
             /\ steps[i][1].result.name = steps[j][1].result.name)
                => KindOf(steps[i]) # KindOf(steps[j])

\* C17: the repeat-count of the In Storage step for an item equals what
\* phase A drew from the pool for the item, and so never exceeds the pool's
\* count of the item.
C17_StorageQuantity ==
    Planned =>
        \A x \in AllItems : \A p \in StorageSteps(steps, x) :
            /\ steps[p][2] = TotalStored(x)
            /\ steps[p][2] <= CountOf(initial_materials, x)

\* phase A has ended: the queue is empty and `steps` is the list it left
PhaseAEnded == pc = "phaseA" /\ DOMAIN craft_order = {}

\* what the first k steps of a list supply of item x: the counts of its Raw
\* Material and In Storage steps, and yield * repeat-count of its catalog steps
RECURSIVE Supplied(_, _, _)
Supplied(plan, x, k) ==
    IF k = 0 THEN 0
    ELSE (IF plan[k][1].result.name # x THEN 0
          ELSE IF IsCatalogStep(plan[k]) THEN plan[k][1].result.count * plan[k][2]
          ELSE plan[k][2])
         + Supplied(plan, x, k - 1)

\* what the catalog steps among the first k steps of a list consume of x
RECURSIVE Consumed(_, _, _)
Consumed(plan, x, k) ==
    IF k = 0 THEN 0
    ELSE (IF IsCatalogStep(plan[k]) THEN Need(plan[k][1], x) * plan[k][2] ELSE 0)
         + Consumed(plan, x, k - 1)

\* C18: when phase A ends, for every item what the steps supply of it
\* equals the target count (for the target item) plus what the catalog
\* steps consume of it plus the surplus left; no demand is left unresolved.
C18_DemandConservation ==
    PhaseAEnded =>
        /\ DOMAIN to_craft = {}
        /\ \A x \in AllItems :
              Supplied(steps, x, Len(steps)) =
                  (IF x = target.name THEN target.count ELSE 0)
                  + Consumed(steps, x, Len(steps))
                  + CountOf(crafted_materials, x)

\* phase A ended for two Shovels: Planks were popped twice, drawn from the
\* pool and crafted, and surplus is left of Planks and of Stick
C18_Witness ==
    /\ PhaseAEnded
    /\ target = Stack("Shovel", 2)
    /\ TotalStored("Planks") >= 1
    /\ Cardinality({ i \in 1..Len(pops) : pops[i].item = "Planks" }) = 2
    /\ \E k \in 1..Len(steps) :
          IsCatalogStep(steps[k]) /\ steps[k][1].result.name = "Planks"
    /\ CountOf(crafted_materials, "Planks") >= 1
    /\ CountOf(crafted_materials, "Stick") >= 1

\* the steps a loop iteration appended
Appended == SubSeq(steps', Len(steps) + 1, Len(steps'))

\* C19: a pop of item X with outstanding demand d takes min(d, surplus of X)
\* from the crafted surplus first, then min(rest, stock of X) from the
\* working copy of the pool; it emits an In Storage step exactly when the
\* amount taken from stock is positive, with that amount, and a catalog or
\* Raw Material step exactly for a positive remainder.
C19_DrawOrder ==
    [][ (pc = "phaseA" /\ pc' = "phaseA" /\ LastPop'.kind # "skip") =>
          LET X == LastPop'.item
              d == to_craft[X]
              s == CountOf(crafted_materials, X)
              m == CountOf(materials, X)
              from_surplus == Min(d, s)
              from_stock == Min(d - from_surplus, m)
              left == d - from_surplus - from_stock
              stock_step == IF from_stock > 0
                            THEN << <<InStorage(X), from_stock>> >> ELSE <<>>
          IN  /\ \A x \in AllItems :
                    CountOf(materials', x) =
                        CountOf(materials, x) - (IF x = X THEN from_stock ELSE 0)
              /\ left = 0 =>
                    /\ CountOf(crafted_materials', X) = s - from_surplus
                    /\ Appended = stock_step
              /\ (left > 0 /\ X \notin DOMAIN recipes) =>
                    /\ CountOf(crafted_materials', X) = s - from_surplus
                    /\ Appended = stock_step \o << <<RawMaterial(X), left>> >>
              /\ (left > 0 /\ X \in DOMAIN recipes) =>
                    \E r \in 1..left :
                        /\ r * recipes[X].result.count >= left
                        /\ (r - 1) * recipes[X].result.count < left
                        /\ Appended = stock_step \o << <<recipes[X], r>> >>
              /\ \A x \in AllItems \ {X} :
                    CountOf(crafted_materials', x) = CountOf(crafted_materials, x)
      ]_vars

\* a demand the surplus of 3 covers, on an item of which an earlier pop drew
\* 1 from the pool and crafted the rest
C19_Witness ==
    /\ pc = "phaseA"
    /\ LastPop.kind = "covered" /\ LastPop.demand = 2 /\ LastPop.surplus = 2
    /\ CountOf(crafted_materials, LastPop.item) = 1
    /\ \E i \in 1..(Len(pops) - 1) :
          /\ pops[i].item = LastPop.item
          /\ pops[i].stored = 1 /\ pops[i].count = 1 /\ pops[i].kind = "recipe"

\* a loop iteration that resolves the popped item by its catalog recipe
RecipePop == pc = "phaseA" /\ pc' = "phaseA" /\ LastPop'.kind = "recipe"

\* C20 as claimed: when a catalog step is emitted for an item popped at
\* priority d, each ingredient is enqueued at d + 1, or raised to d + 1 when
\* it was queued lower, and is left where it was when it was queued higher.
C20_DepthPlusOne ==
    [][ RecipePop =>
          LET X == LastPop'.item
              d == craft_order[X]
              rest == remove(craft_order, X)
          IN  \A g \in IngredientItems(recipes[X]) :
                /\ g \in DOMAIN craft_order'
                /\ craft_order'[g] =
                      (IF g \in DOMAIN rest /\ rest[g] > d + 1 THEN rest[g] ELSE d + 1)
      ]_vars

\* C20 as amended: the i-th ingredient is enqueued at, or raised to, one
\* more than the highest priority the queue holds at that moment (0 for an
\* empty queue), which puts it above every item queued before; no priority
\* is lowered, and the priorities of the other items stay.
C20_AboveTheQueue ==
    [][ RecipePop =>
          LET X == LastPop'.item
              rest == remove(craft_order, X)
              ingredients == recipes[X].ingredients
              base == IF DOMAIN rest = {} THEN 0 ELSE MaxPriority(rest) + 1
              last(i) == \A j \in (i + 1)..Len(ingredients) :
                            ingredients[j].name # ingredients[i].name
          IN  base + Len(ingredients) < UsizeMax =>
                /\ DOMAIN craft_order' = DOMAIN rest \cup IngredientItems(recipes[X])
                /\ \A i \in 1..Len(ingredients) :
                      last(i) => craft_order'[ingredients[i].name] = base + i - 1
                /\ \A k \in DOMAIN rest :
                      /\ craft_order'[k] >= rest[k]
                      /\ k \notin IngredientItems(recipes[X]) =>
                            /\ craft_order'[k] = rest[k]
                            /\ \A g \in IngredientItems(recipes[X]) :
                                  craft_order'[g] > craft_order'[k]
      ]_vars

\* Shovel was popped from the queue it was alone in, which put Stick at 0
\* and Planks at 1; the pop of Stick has raised Planks to 2
C20_Witness ==
    /\ pc = "phaseA" /\ Len(pops) = 2
    /\ pops[1].item = "Shovel" /\ pops[1].kind = "recipe"
    /\ recipes["Shovel"].ingredients = <<Stack("Stick", 1), Stack("Planks", 2)>>
    /\ LastPop.item = "Stick" /\ LastPop.kind = "recipe"
    /\ craft_order = [k \in {"Planks"} |-> 2]
    /\ CountOf(to_craft, "Planks") = 4

\* C22: whenever phase A stashes the excess of a catalog step for item X,
\* the surplus entry of X is absent or zero once the draw of this iteration
\* is taken from it, so the insert loses nothing: the entry afterwards is the
\* excess alone, and every other entry is as it was.
C22_SurplusNotOverwritten ==
    [][ RecipePop =>
          LET X == LastPop'.item
              d == to_craft[X]
              s == CountOf(crafted_materials, X)
              left_in_entry == s - LastPop'.surplus
              count == LastPop'.count
              produced == recipes[X].result.count * LastPop'.repeats
          IN  produced > count =>
                /\ LastPop'.surplus = Min(d, s)
                /\ left_in_entry = 0
                /\ X \in DOMAIN crafted_materials'
                /\ crafted_materials'[X] = left_in_entry + (produced - count)
                /\ \A x \in AllItems \ {X} :
                      /\ x \in DOMAIN crafted_materials' <=> x \in DOMAIN crafted_materials
                      /\ CountOf(crafted_materials', x) = CountOf(crafted_materials, x)
      ]_vars

\* an item is crafted a second time with excess: its surplus entry, drained
\* to zero by this very demand, takes the new excess
C22_Witness ==
    /\ pc = "phaseA" /\ LastPop.kind = "recipe"
    /\ LastPop.surplus >= 1 /\ LastPop.count >= 1
    /\ recipes[LastPop.item].result.count * LastPop.repeats > LastPop.count
    /\ \E i \in 1..(Len(pops) - 1) :
          /\ pops[i].item = LastPop.item /\ pops[i].kind = "recipe"
          /\ recipes[LastPop.item].result.count * pops[i].repeats > pops[i].count

\* item x has a recipe and requires itself, directly or transitively
OnCycle(x) ==
    x \in DOMAIN recipes /\ x \in Requires(recipes, x, Cardinality(AllItems))

\* the demand has reached a cycle: phase A resolved an item that requires
\* itself by its recipe
CycleReached ==
    \E i \in 1..Len(pops) : pops[i].kind = "recipe" /\ OnCycle(pops[i].item)

\* the labels phase B takes for the two kinds of pseudo-step
ReservedLabels == {"Raw Material", "In Storage"}

\* C23 as claimed: a recomputation whose demand reaches a dependency cycle
\* of the catalog never returns a plan.
C23_CycleNeverReturns == Planned => ~CycleReached

\* C23 as amended: a recomputation whose demand reaches a dependency cycle
\* returns a plan only if phase A drew an item of a cycle from the pool, or
\* resolved an item of a cycle by a recipe labelled "Raw Material" or
\* "In Storage"; in every other case it never returns.
C23_CycleReturnsOnlyBroken ==
    (Planned /\ CycleReached) =>
        \E i \in 1..Len(pops) :
            /\ OnCycle(pops[i].item)
            /\ \/ pops[i].stored > 0
               \/ /\ pops[i].kind = "recipe"
                  /\ recipes[pops[i].item].method \in ReservedLabels

\* a plan was returned although the demand went around the cycle of Planks
\* and Stick, both under ordinary labels: Planks was resolved by its recipe,
\* then Stick, then Planks again, and the pool held one Stick
C23_Witness ==
    /\ Planned /\ steps # <<>>
    /\ \A x \in DOMAIN recipes : recipes[x].method \notin ReservedLabels
    /\ \E i, j, k \in 1..Len(pops) :
          /\ i < k /\ k < j
          /\ pops[i].item = "Planks" /\ pops[i].kind = "recipe"
          /\ pops[k].item = "Stick" /\ pops[k].kind = "recipe" /\ pops[k].stored = 1
          /\ pops[j].item = "Planks" /\ pops[j].kind = "recipe"
    /\ OnCycle("Planks") /\ OnCycle("Stick")

\* a step of the plan that carries one of the two reserved labels and is
\* not the catalog's recipe for its item: a step phase A synthesized
PseudoStep(s) ==
    /\ s[1].method \in ReservedLabels
    /\ ~(/\ s[1].result.name \in DOMAIN recipes
         /\ recipes[s[1].result.name] = s[1])

\* C24 as claimed: every Raw Material and In Storage step of the plan is a
\* pseudo-recipe producing one of its item, with no ingredients.
C24_NoIngredients ==
    Planned =>
        \A k \in 1..Len(steps) :
            PseudoStep(steps[k]) =>
                /\ steps[k][1].result.count = 1
                /\ steps[k][1].ingredients = <<>>

\* C24 as amended: every Raw Material and In Storage step of the plan that
\* phase A synthesized is a pseudo-recipe producing one of its item from
\* one of the same item: its ingredient list is the single stack (item, 1).
C24_SelfIngredient ==
    Planned =>
        \A k \in 1..Len(steps) :
            PseudoStep(steps[k]) =>
                /\ steps[k][1].result.count = 1
                /\ steps[k][1].ingredients =
                      << [name |-> steps[k][1].result.name, count |-> 1] >>

\* a plan that holds a Raw Material step, an In Storage step and a catalog
\* step, each for another item
C24_Witness ==
    /\ Planned
    /\ \E i, j, k \in 1..Len(steps) :
          /\ PseudoStep(steps[i]) /\ steps[i][1].method = "Raw Material"
          /\ PseudoStep(steps[j]) /\ steps[j][1].method = "In Storage"
          /\ ~PseudoStep(steps[k]) /\ steps[k][1].method = "Crafting Table"
          /\ steps[i][2] = 2 /\ steps[j][2] = 1

\* C25: every catalog entry stored under key k holds a recipe whose result
\* item is k, and the catalog step phase A emits for a popped item produces
\* that item.
C25_CatalogKeys ==
    /\ \A k \in DOMAIN recipes : recipes[k].result.name = k
    /\ (pc = "phaseA" /\ LastPop.kind = "recipe") =>
          steps[Len(steps)][1].result.name = LastPop.item

\* step s is the Raw Material pseudo-step phase A built for an item it
\* found without recipe
SynthesizedRaw(s) ==
    /\ s[1] = RawMaterial(s[1].result.name)
    /\ \E i \in 1..Len(pops) :
          pops[i].item = s[1].result.name /\ pops[i].kind = "raw"

\* step s is the In Storage pseudo-step phase A built for an item it drew
\* from the pool
SynthesizedStored(s) ==
    /\ s[1] = InStorage(s[1].result.name)
    /\ \E i \in 1..Len(pops) :
          pops[i].item = s[1].result.name /\ pops[i].stored > 0

\* C26: phase B puts a step into the Raw Material or the In Storage bucket
\* only if phase A synthesized it as that pseudo-step; a recipe of the
\* catalog, whatever its label, is placed in the plan after steps that
\* produce its ingredients (or the pool holds them).
C26_ClassifiedByKind ==
    /\ pc = "phaseB" =>
          /\ \A k \in 1..Len(checked_steps) :
                /\ checked_steps[k][1].method = "Raw Material"
                      => SynthesizedRaw(checked_steps[k])
                /\ checked_steps[k][1].method = "In Storage"
                      => SynthesizedStored(checked_steps[k])
          /\ \A x \in DOMAIN from_storage : SynthesizedStored(from_storage[x])
    /\ Planned =>
          \A j \in 1..Len(steps) :
              (/\ steps[j][1].result.name \in DOMAIN recipes
               /\ steps[j][1] = recipes[steps[j][1].result.name]
               /\ steps[j][1].method \in ReservedLabels) =>
                  \A x \in IngredientItems(steps[j][1]) :
                      \/ x \in ProducedBefore(steps, j)
                      \/ x \in DOMAIN initial_materials

\* C27: at every boundary of an iteration of the phase A loop the items of
\* the work queue are the items that hold an outstanding-demand entry; no
\* iteration pops an item without demand entry, and when the queue is
\* empty so is the outstanding-demand map (the debug assertion holds).
C27_QueueMatchesDemand ==
    pc = "phaseA" =>
        /\ DOMAIN craft_order = DOMAIN to_craft
        /\ \A i \in 1..Len(pops) : pops[i].kind # "skip"
        /\ DOMAIN craft_order = {} => to_craft = EmptyMap

\* Log and Planks are queued, each with its demand: Planks is demanded a
\* second time after an earlier pop resolved it by its recipe
C27_Witness ==
    /\ pc = "phaseA"
    /\ DOMAIN craft_order = {"Planks", "Log"}
    /\ DOMAIN to_craft = {"Planks", "Log"}
    /\ \E i \in 1..Len(pops) : pops[i].item = "Planks" /\ pops[i].kind = "recipe"
    /\ to_craft["Planks"] >= 2 /\ to_craft["Log"] >= 1

\* C28: below the top of the priority range no two items of the phase A
\* work queue hold the same priority, so pop_min has a single item to
\* return at every iteration.
C28_NoPriorityTies ==
    pc = "phaseA" =>
        /\ \A k, j \in DOMAIN craft_order :
              k # j => craft_order[k] # craft_order[j]
        /\ DOMAIN craft_order # {} => Cardinality(MinItems(craft_order)) = 1
        /\ \A k \in DOMAIN craft_order : craft_order[k] < UsizeMax

\* the two ingredients of Shovel were queued at 0 and 1; after the pops of
\* Planks and Stick the queue holds Log at 2 and Planks at 3
C28_Witness ==
    /\ pc = "phaseA" /\ Len(pops) = 3
    /\ pops[1].item = "Shovel" /\ pops[2].item = "Planks" /\ pops[3].item = "Stick"
    /\ craft_order = [k \in {"Log", "Planks"} |-> IF k = "Log" THEN 2 ELSE 3]

====
